---- MODULE Spec2Model ----
(***************************************************************************)
(* Model of the on-chain App component of pixel-pony-miniapp               *)
(* (src/src/App.tsx, lines 109-629): the React state of the component, the *)
(* wagmi hooks it reads (account, write hook, receipt wait, allowance and  *)
(* base-fee reads), its four effects, its click handlers, the asynchronous *)
(* handleRaceComplete continuation and the delayed resets it schedules.    *)
(*                                                                         *)
(* React commits are modelled explicitly: Commit takes the snapshot the    *)
(* closures of one render see, decides by comparing dependency arrays with *)
(* the previous render which effects run, and runs them in source order;   *)
(* they read the snapshot and write the live state.  Events from outside   *)
(* (clicks, wallet, chain, timers, awaits resuming) are taken only when no *)
(* commit is pending, as React flushes effects before it handles the next  *)
(* event.                                                                  *)
(*                                                                         *)
(* The simulator App (lines 668-1043) and ZoraPage (lines 1455-1836) are   *)
(* modelled after the on-chain App, each with its own state variable and   *)
(* its own specification (SpecSim, SpecGen, SpecZora); SpecZoraEntry is    *)
(* ZoraPage with its entry form in use, SpecZoraResults one result         *)
(* computation of its handleRace.                                          *)
(***************************************************************************)
EXTENDS Integers, Sequences, FiniteSets, TLC

(* ------------------------------ bounds -------------------------------- *)
\* writeContract requests (approve or placeBetAndRace) of a session
MaxTx == 3
\* times the wallet connection drops during a session ...
MaxDisconnects == 1
\* ... and writeContract requests of a session in which it drops
MaxTxDropped == 1
\* the user picks among the first NumBets entries of BET_AMOUNTS
NumBets == 2

(* --------------------------- program constants ------------------------ *)
NoValue == 0 - 1                   \* null / undefined
BET_AMOUNTS == <<10, 25, 50>>      \* in units of 10^9 PONY (10^27 wei)
CountdownFrom == 5
HorsePicks == {3}                  \* horse cards the user clicks (ids 0..15)
InitialAllowances == {0, 25}       \* on-chain allowance left by earlier sessions
Account == 1                       \* the wallet address once connected
BaseFeeValue == 1                  \* baseFeeAmount() of the contract, when loaded

NumHorses == 16                    \* horse cards and racers, ids 0..15

\* the RaceExecuted payloads a log can carry (winners is a uint256[3] that the
\* component takes as it comes): a win with three distinct horses, and a loss
\* whose list repeats a horse and names one beyond the last horse
Payloads == << [winners |-> <<3, 0, 15>>, won |-> TRUE,  payout |-> 30],
               [winners |-> <<1, 1, 16>>, won |-> FALSE, payout |-> 0] >>

Bets == { BET_AMOUNTS[i] : i \in 1..NumBets }

VARIABLES
  \* useState of App
  selectedHorse, selectedBet, statusMessage, isApproved, showTrack,
  showResult, raceResult, isRacing, raceHash,
  \* hooks
  address,          \* useAccount().address
  wr,               \* useWriteContract(): [status, req]; hash is req when status = "success"
  rcpt,             \* useWaitForTransactionReceipt({hash}): "none" | "loading" | "success" | "error"
  allowanceData,    \* data of the allowance query
  baseFee,          \* data of the baseFeeAmount query
  \* environment
  txs,              \* every writeContract request, indexed by its id (= its hash once signed)
  chainAllowance,   \* allowance(owner, PIXEL_PONY) on chain
  disconnects,
  \* asynchronous work of the component
  tasks,            \* suspended handleRaceComplete invocations
  timers,           \* pending setTimeout(..., 5000) resets
  \* React commit
  rs,               \* dependency values of the last render whose effects ran
  \* history
  outcomes,         \* per hash: number of race outcomes produced (setRaceResult + setShowResult)
  animations,       \* per hash: number of animateRace calls
  settled,          \* race hashes whose lifecycle ended (reset done)
  fresh,            \* no bet was re-selected and no race requested yet
  \* the other pages of the application (each is its own component)
  sim,              \* simulator App (lines 668-1043): its state while mounted
  gen,              \* one call of a function of a page (the simulator's
                    \* generateRandomWinners, ZoraPage's result computation)
  zora              \* ZoraPage (lines 1455-1836): its state, clock and storage

appVars == << selectedHorse, selectedBet, statusMessage, isApproved, showTrack,
              showResult, raceResult, isRacing, raceHash, address, wr, rcpt,
              allowanceData, baseFee, txs, chainAllowance, disconnects, tasks,
              timers, rs, outcomes, animations, settled, fresh >>
pages == << sim, gen, zora >>
vars == << appVars, pages >>

\* a page whose component is not mounted has no state
NotMounted == [mounted |-> FALSE]

reactVars == << selectedHorse, selectedBet, statusMessage, isApproved,
                showTrack, showResult, raceResult, isRacing, raceHash >>
hookVars == << address, wr, rcpt, allowanceData, baseFee >>
envVars == << txs, chainAllowance, disconnects >>
asyncVars == << tasks, timers >>
histVars == << outcomes, animations, settled, fresh >>

\* useState<...|null>(null) of raceResult
NoResult == [set |-> FALSE, won |-> FALSE, winners |-> << >>, payout |-> 0]

(* ------------------------------ messages ------------------------------ *)
Msg(k) == [kind |-> k, horse |-> NoValue, bet |-> NoValue, n |-> NoValue]
ReadyMsg(h, b) == [kind |-> "Ready", horse |-> h, bet |-> b, n |-> NoValue]
CountdownMsg(i) == [kind |-> "Countdown", horse |-> NoValue, bet |-> NoValue, n |-> i]

(* --------------------------- derived values --------------------------- *)
\* data: hash of useWriteContract
hash == IF wr.status = "success" THEN wr.req ELSE NoValue
isWritePending == wr.status = "pending"
isConfirming == hash # NoValue /\ rcpt = "loading"
isConfirmed == hash # NoValue /\ rcpt = "success"
\* data of the allowance read: the query is keyed by the address and is
\* disabled (no data) until an address and a bet exist
allowance ==
  IF address # NoValue /\ selectedBet # NoValue THEN allowanceData ELSE NoValue

\* a variant of canApprove that does not ask for a horse
canApprove_NoHorse == /\ selectedBet # NoValue
                      /\ address # NoValue /\ ~isApproved /\ ~isRacing

canApprove == /\ selectedHorse # NoValue /\ selectedBet # NoValue
              /\ address # NoValue /\ ~isApproved /\ ~isRacing
canRace == isApproved /\ ~isWritePending /\ ~isRacing

\* the values the dependency arrays of the effects are made of
CurView == [allowance |-> allowance, selectedBet |-> selectedBet, hash |-> hash,
            isConfirming |-> isConfirming, isWritePending |-> isWritePending,
            isApproved |-> isApproved, raceHash |-> raceHash,
            isConfirmed |-> isConfirmed, address |-> address,
            isRacing |-> isRacing]

\* no commit is pending
Stable == rs = CurView

Min(S) == CHOOSE x \in S : \A y \in S : x <= y

(* -------------------------------- Init -------------------------------- *)
AppInit ==
  /\ selectedHorse = NoValue /\ selectedBet = NoValue
  /\ statusMessage = Msg("Pick")
  /\ isApproved = FALSE /\ showTrack = FALSE /\ showResult = FALSE
  /\ raceResult = NoResult /\ isRacing = FALSE /\ raceHash = NoValue
  /\ address = NoValue
  /\ wr = [status |-> "idle", req |-> NoValue]
  /\ rcpt = "none"
  /\ allowanceData = NoValue
  /\ baseFee = NoValue
  /\ txs = << >>
  /\ chainAllowance \in InitialAllowances
  /\ disconnects = 0
  /\ tasks = << >> /\ timers = {}
  /\ rs = CurView
  /\ outcomes = [h \in 1..MaxTx |-> 0]
  /\ animations = [h \in 1..MaxTx |-> 0]
  /\ settled = {}
  /\ fresh = TRUE

\* the session of the on-chain App: the other pages are not mounted
Init ==
  /\ AppInit
  /\ sim = NotMounted /\ gen = NotMounted /\ zora = NotMounted

(* ------------------------------ helpers ------------------------------- *)
RemoveAt(s, k) == [i \in 1..(Len(s) - 1) |-> IF i < k THEN s[i] ELSE s[i + 1]]

\* writeContract(...) of useWriteContract: a new mutation starts, the hook goes
\* to pending and its data (the hash) is cleared; the previous request, if the
\* wallet has not answered it yet, is no longer observed by the hook
WriteContract(kind, horse, amount, value) ==
  /\ Len(txs) < (IF disconnects > 0 THEN MaxTxDropped ELSE MaxTx)
  /\ txs' = Append(txs, [kind |-> kind, horse |-> horse, amount |-> amount,
                         value |-> value, st |-> "prompt"])
  /\ wr' = [status |-> "pending", req |-> Len(txs) + 1]
  /\ rcpt' = "none"

\* resetWrite() of useWriteContract
ResetWrite == /\ wr' = [status |-> "idle", req |-> NoValue]
              /\ rcpt' = "none"

\* updateStatus reads selectedHorse and selectedBet of the render the handler
\* was created in
updateStatus ==
  IF selectedHorse # NoValue /\ selectedBet # NoValue
  THEN statusMessage' = ReadyMsg(selectedHorse, selectedBet)
  ELSE UNCHANGED statusMessage

(* ---------------------------- click handlers -------------------------- *)
selectHorse(horseId) ==
  /\ selectedHorse' = horseId
  /\ updateStatus
  /\ UNCHANGED << pages, selectedBet, isApproved, showTrack, showResult, raceResult,
                  isRacing, raceHash, hookVars, envVars, asyncVars, rs,
                  histVars >>

selectBet(amount) ==
  /\ selectedBet' = amount
  /\ isApproved' = FALSE
  /\ updateStatus
  /\ fresh' = (fresh /\ selectedBet = NoValue)
  /\ UNCHANGED << pages, selectedHorse, showTrack, showResult, raceResult, isRacing,
                  raceHash, hookVars, envVars, asyncVars, rs, outcomes,
                  animations, settled >>

\* a variant of handleApprove that approves the smallest bet amount whatever
\* bet is selected
handleApprove_FixedAmount ==
  IF selectedBet = NoValue
  THEN UNCHANGED vars
  ELSE /\ statusMessage' = Msg("Approving")
       /\ WriteContract("approve", NoValue, BET_AMOUNTS[1], 0)
       /\ UNCHANGED << pages, selectedHorse, selectedBet, isApproved, showTrack,
                       showResult, raceResult, isRacing, raceHash, address,
                       allowanceData, baseFee, chainAllowance, disconnects,
                       asyncVars, rs, histVars >>

\* writeContract does not throw: a refused or failed submission ends in the
\* hook's error state, so the catch block is never entered
handleApprove ==
  IF selectedBet = NoValue
  THEN UNCHANGED vars
  ELSE /\ statusMessage' = Msg("Approving")
       /\ WriteContract("approve", NoValue, selectedBet, 0)
       /\ UNCHANGED << pages, selectedHorse, selectedBet, isApproved, showTrack,
                       showResult, raceResult, isRacing, raceHash, address,
                       allowanceData, baseFee, chainAllowance, disconnects,
                       asyncVars, rs, histVars >>

\* a variant of handleRace that does not wait for the base fee
handleRace_NoFeeGuard ==
  IF selectedHorse = NoValue \/ selectedBet = NoValue \/ isRacing
  THEN UNCHANGED vars
  ELSE /\ statusMessage' = Msg("Starting")
       /\ isRacing' = TRUE
       /\ showTrack' = TRUE
       /\ WriteContract("race", selectedHorse, selectedBet, baseFee)
       /\ fresh' = FALSE
       /\ UNCHANGED << pages, selectedHorse, selectedBet, isApproved, showResult,
                       raceResult, raceHash, address, allowanceData, baseFee,
                       chainAllowance, disconnects, asyncVars, rs, outcomes,
                       animations, settled >>

handleRace ==
  IF selectedHorse = NoValue \/ selectedBet = NoValue
       \/ baseFee = NoValue \/ baseFee = 0 \/ isRacing
  THEN UNCHANGED vars
  ELSE /\ statusMessage' = Msg("Starting")
       /\ isRacing' = TRUE
       /\ showTrack' = TRUE
       /\ WriteContract("race", selectedHorse, selectedBet, baseFee)
       /\ fresh' = FALSE
       /\ UNCHANGED << pages, selectedHorse, selectedBet, isApproved, showResult,
                       raceResult, raceHash, address, allowanceData, baseFee,
                       chainAllowance, disconnects, asyncVars, rs, outcomes,
                       animations, settled >>

\* a variant of closeTrack that also drops the suspended reconciliations
closeTrack_Aborts ==
  /\ showTrack' = FALSE
  /\ tasks' = << >>
  /\ UNCHANGED << pages, selectedHorse, selectedBet, statusMessage, isApproved,
                  showResult, raceResult, isRacing, raceHash, hookVars,
                  envVars, timers, rs, histVars >>

closeTrack ==
  /\ showTrack' = FALSE
  /\ UNCHANGED << pages, selectedHorse, selectedBet, statusMessage, isApproved,
                  showResult, raceResult, isRacing, raceHash, hookVars,
                  envVars, asyncVars, rs, histVars >>

closeResult ==
  /\ showResult' = FALSE
  /\ showTrack' = FALSE
  /\ UNCHANGED << pages, selectedHorse, selectedBet, statusMessage, isApproved,
                  raceResult, isRacing, raceHash, hookVars, envVars,
                  asyncVars, rs, histVars >>

\* the buttons: a disabled button delivers no click
ClickHorse == Stable /\ \E h \in HorsePicks : selectHorse(h)
ClickBet == Stable /\ \E b \in Bets : selectBet(b)
ClickApprove == Stable /\ canApprove /\ ~isWritePending /\ handleApprove
ClickRace == Stable /\ canRace /\ handleRace
ClickCloseTrack == Stable /\ showTrack /\ closeTrack
ClickCloseResult == Stable /\ showResult /\ closeResult

(* ------------------------- wallet, chain, queries --------------------- *)
\* useAccount: the connector (re)connects
WalletConnects ==
  /\ Stable /\ address = NoValue
  /\ address' = Account
  /\ UNCHANGED << pages, reactVars, wr, rcpt, allowanceData, baseFee, envVars,
                  asyncVars, rs, histVars >>

WalletDisconnects ==
  /\ Stable /\ address # NoValue
  /\ disconnects < MaxDisconnects /\ Len(txs) <= MaxTxDropped
  /\ address' = NoValue
  /\ disconnects' = disconnects + 1
  /\ UNCHANGED << pages, reactVars, wr, rcpt, allowanceData, baseFee, txs,
                  chainAllowance, asyncVars, rs, histVars >>

\* a request that has reached its final state: only its kind and its fate
\* are kept
Final(tx, st) == [kind |-> tx.kind, horse |-> NoValue, amount |-> 0,
                  value |-> 0, st |-> st]

\* the wallet signs request id and broadcasts it; the hook learns the hash if
\* it still observes that request
WalletSigns(id) ==
  /\ Stable /\ txs[id].st = "prompt"
  /\ txs' = [txs EXCEPT ![id].st = "pending"]
  /\ IF wr.status = "pending" /\ wr.req = id
     THEN wr' = [wr EXCEPT !.status = "success"] /\ rcpt' = "loading"
     ELSE UNCHANGED << wr, rcpt >>
  /\ UNCHANGED << pages, reactVars, address, allowanceData, baseFee, chainAllowance,
                  disconnects, asyncVars, rs, histVars >>

\* the user declines in the wallet, or the submission fails
WalletRejects(id) ==
  /\ Stable /\ txs[id].st = "prompt"
  /\ txs' = [txs EXCEPT ![id] = Final(@, "rejected")]
  /\ IF wr.status = "pending" /\ wr.req = id
     THEN wr' = [wr EXCEPT !.status = "error"]
     ELSE UNCHANGED wr
  /\ UNCHANGED << pages, reactVars, address, rcpt, allowanceData, baseFee,
                  chainAllowance, disconnects, asyncVars, rs, histVars >>

\* the transaction is mined: approve sets the allowance, placeBetAndRace
\* spends it and emits RaceExecuted, or the transaction reverts
TxMined(id) ==
  /\ Stable /\ txs[id].st = "pending"
  /\ \/ /\ txs[id].kind = "approve"
        /\ txs' = [txs EXCEPT ![id] = Final(@, "ok")]
        /\ chainAllowance' = txs[id].amount
     \/ /\ txs[id].kind = "race"
        /\ chainAllowance >= txs[id].amount
        /\ txs' = [txs EXCEPT ![id] = Final(@, "ok")]
        /\ chainAllowance' = chainAllowance - txs[id].amount
     \/ /\ txs' = [txs EXCEPT ![id] = Final(@, "reverted")]
        /\ UNCHANGED chainAllowance
  /\ UNCHANGED << pages, reactVars, hookVars, disconnects, asyncVars, rs, histVars >>

\* useWaitForTransactionReceipt resolves with the receipt (of a successful or
\* of a reverted transaction)
ReceiptObserved ==
  /\ Stable /\ hash # NoValue /\ rcpt = "loading"
  /\ txs[hash].st \in {"ok", "reverted"}
  /\ rcpt' = "success"
  /\ UNCHANGED << pages, reactVars, address, wr, allowanceData, baseFee, envVars,
                  asyncVars, rs, histVars >>

\* ... or gives up (time-out, RPC failure)
ReceiptWaitFails ==
  /\ Stable /\ hash # NoValue /\ rcpt = "loading"
  /\ rcpt' = "error"
  /\ UNCHANGED << pages, reactVars, address, wr, allowanceData, baseFee, envVars,
                  asyncVars, rs, histVars >>

\* a fetch of the allowance query returns the on-chain value; the query
\* fetches when it is enabled, on window focus and on refetchAllowance()
AllowanceFetched ==
  /\ Stable /\ address # NoValue /\ selectedBet # NoValue
  /\ allowanceData # chainAllowance
  /\ allowanceData' = chainAllowance
  /\ UNCHANGED << pages, reactVars, address, wr, rcpt, baseFee, envVars, asyncVars,
                  rs, histVars >>

\* the baseFeeAmount read resolves; it does so before the first request of
\* the session or not at all
BaseFeeLoaded ==
  /\ Stable /\ baseFee = NoValue /\ txs = << >>
  /\ baseFee' = BaseFeeValue
  /\ UNCHANGED << pages, reactVars, address, wr, rcpt, allowanceData, envVars,
                  asyncVars, rs, histVars >>

(* ------------------------------- effects ------------------------------ *)
\* the dependency array of each effect, in source order
Deps(e, v) ==
  CASE e = 1 -> << v.allowance, v.selectedBet >>
    [] e = 2 -> << v.hash, v.isConfirming, v.isWritePending, v.isApproved, v.raceHash >>
    [] e = 3 -> << v.isConfirmed, v.hash, v.address, v.isRacing, v.raceHash >>
    [] e = 4 -> << v.hash, v.isRacing, v.raceHash >>

\* effect e runs in the commit of the render that sees v
Runs(e, v) == Deps(e, v) # Deps(e, rs)

\* a variant of ApprovedFrom that leaves out the comparison
ApprovedFrom_NoCompare(a, b) == a # NoValue /\ a # 0 /\ b # NoValue /\ b # 0

\* "Check if approved whenever allowance or selectedBet changes": the value
\* given to setIsApproved
ApprovedFrom(a, b) == IF a # NoValue /\ a # 0 /\ b # NoValue /\ b # 0
                      THEN a >= b ELSE FALSE

\* "Separate approval and race transaction handling": the effect reaches
\* refetchAllowance() and the 'Approved!' status
ApprovalConfirmed(v) ==
  /\ ~(v.hash = NoValue \/ v.isConfirming \/ v.isWritePending)
  /\ ~(v.isApproved /\ v.raceHash = v.hash)
  /\ ~v.isApproved

\* a variant of the guards that does not wait for the confirmation
RaceCompleteGuards_NoConfirm(v) ==
  /\ v.hash # NoValue /\ v.address # NoValue
  /\ v.isRacing /\ v.raceHash = v.hash

\* the guards of handleRaceComplete
RaceCompleteGuards(v) ==
  /\ v.isConfirmed /\ v.hash # NoValue /\ v.address # NoValue
  /\ v.isRacing /\ v.raceHash = v.hash

\* "Track when we start a race transaction"
TrackRaceHash(v) == v.hash # NoValue /\ v.isRacing /\ v.raceHash = NoValue

\* one commit: the effects whose dependencies changed run in source order
\* with the closures of this render.  handleRaceComplete runs up to its first
\* await: it sets the countdown status and suspends
Commit ==
  /\ ~Stable
  /\ LET v == CurView IN
       /\ rs' = v
       /\ isApproved' = IF Runs(1, v) THEN ApprovedFrom(v.allowance, v.selectedBet)
                        ELSE isApproved
       /\ statusMessage' =
            IF Runs(3, v) /\ RaceCompleteGuards(v) THEN CountdownMsg(CountdownFrom)
            ELSE IF Runs(2, v) /\ ApprovalConfirmed(v) THEN Msg("Approved")
            ELSE statusMessage
       /\ tasks' = IF Runs(3, v) /\ RaceCompleteGuards(v)
                   THEN Append(tasks, [hash |-> v.hash, pc |-> "countdown",
                                       ev |-> 0, due |-> timers])
                   ELSE tasks
       /\ raceHash' = IF Runs(4, v) /\ TrackRaceHash(v) THEN v.hash ELSE raceHash
  /\ UNCHANGED << pages, selectedHorse, selectedBet, showTrack, showResult,
                  raceResult, isRacing, hookVars, envVars, timers, histVars >>

(* ------------------- handleRaceComplete after its awaits -------------- *)
\* the catch block of handleRaceComplete
RaceCompleteCatch(k) ==
  /\ statusMessage' = Msg("Error")
  /\ timers' = timers \cup {[kind |-> "catch", hash |-> tasks[k].hash]}
  /\ tasks' = RemoveAt(tasks, k)
  /\ UNCHANGED << pages, selectedHorse, selectedBet, isApproved, showTrack,
                  showResult, raceResult, isRacing, raceHash, hookVars,
                  envVars, rs, histVars >>

\* a variant of the reset that leaves the write hook as it is
ResetRaceState_KeepsHook(h) ==
  /\ isRacing' = FALSE
  /\ raceHash' = NoValue
  /\ isApproved' = FALSE
  /\ UNCHANGED << wr, rcpt >>
  /\ settled' = settled \cup {h}

\* "Refresh balances" and "Reset race state", the end of the try block
ResetRaceState(h) ==
  /\ isRacing' = FALSE
  /\ raceHash' = NoValue
  /\ isApproved' = FALSE
  /\ ResetWrite
  /\ settled' = settled \cup {h}

\* the countdown loop has run: its five one-second waits are taken as one
\* wait, the status texts 'Race starting in 4..1' between them are skipped;
\* then 'AND THEY'RE OFF!' and getTransactionReceipt is called
TaskCountdown(k) ==
  /\ Stable /\ k \in 1..Len(tasks) /\ tasks[k].pc = "countdown"
  \* the 5000 ms timers that were pending when this countdown began have fired
  /\ tasks[k].due \cap timers = {}
  /\ statusMessage' = Msg("Off")
  /\ tasks' = [tasks EXCEPT ![k].pc = "receipt", ![k].due = {}]
  /\ UNCHANGED << pages, selectedHorse, selectedBet, isApproved, showTrack,
                  showResult, raceResult, isRacing, raceHash, hookVars,
                  envVars, timers, rs, histVars >>

\* publicClient.getTransactionReceipt({ hash }) returns the receipt, whose
\* blockNumber alone is used; after "Wait a moment for block to be indexed"
\* (a wait that changes nothing) getLogs is called
TaskReceipt(k) ==
  /\ Stable /\ k \in 1..Len(tasks) /\ tasks[k].pc = "receipt"
  /\ txs[tasks[k].hash].st \in {"ok", "reverted"}
  /\ tasks' = [tasks EXCEPT ![k].pc = "logs"]
  /\ UNCHANGED << pages, reactVars, hookVars, envVars, timers, rs, histVars >>

\* ... or throws (RPC failure, receipt not found on the queried node)
TaskReceiptThrows(k) ==
  /\ Stable /\ k \in 1..Len(tasks) /\ tasks[k].pc = "receipt"
  /\ RaceCompleteCatch(k)

\* what getLogs can return for the block of transaction h: RaceExecuted logs
\* of the contract in that block, of other transactions and, if h succeeded
\* and the node has indexed it, of h (one, or two when the transaction made
\* two calls), with the payload the contract emitted; args is empty when
\* decoding failed
OtherLog == [tx |-> 0, args |-> "ok", ev |-> 1]
OurLog(h, e) == [tx |-> h, args |-> "ok", ev |-> e]
OurBadLog(h) == [tx |-> h, args |-> "empty", ev |-> 0]
LogChoices(h) ==
  { << >>, << OtherLog >> } \cup
  ( IF txs[h].st = "ok" /\ txs[h].kind = "race"
    THEN { << OurLog(h, e) >> : e \in 1..Len(Payloads) }
           \cup { << OtherLog, OurLog(h, e) >> : e \in 1..Len(Payloads) }
           \cup { << OurLog(h, e), OurLog(h, f) >> :
                    e \in 1..Len(Payloads), f \in 1..Len(Payloads) }
           \cup { << OurBadLog(h) >> }
    ELSE {} )

\* a variant of the search that takes the first log of the block
FindRaceEvent_FirstLog(logs, h) == IF Len(logs) > 0 THEN 1 ELSE 0

\* logs.find(log => log.transactionHash === hash): index of the first match, 0 if none
FindRaceEvent(logs, h) ==
  IF \E i \in 1..Len(logs) : logs[i].tx = h
  THEN Min({ i \in 1..Len(logs) : logs[i].tx = h })
  ELSE 0

\* a variant of the else branch that reports the race as lost
RaceEventNotFound_AsLoss(k) ==
  /\ raceResult' = [set |-> TRUE, won |-> FALSE, winners |-> << >>, payout |-> 0]
  /\ showResult' = TRUE
  /\ statusMessage' = Msg("Lost")
  /\ ResetRaceState(tasks[k].hash)
  /\ tasks' = RemoveAt(tasks, k)
  /\ UNCHANGED << pages, selectedHorse, selectedBet, showTrack, address,
                  allowanceData, baseFee, envVars, timers, rs, outcomes,
                  animations, fresh >>

\* the else branch: "Could not find race event"
RaceEventNotFound(k) ==
  /\ statusMessage' = Msg("NotFound")
  /\ timers' = timers \cup {[kind |-> "nf", hash |-> tasks[k].hash]}
  /\ ResetRaceState(tasks[k].hash)
  /\ tasks' = RemoveAt(tasks, k)
  /\ UNCHANGED << pages, selectedHorse, selectedBet, showTrack, showResult,
                  raceResult, address, allowanceData, baseFee, envVars, rs,
                  outcomes, animations, fresh >>

\* the then branch up to "await animateRace(...)"
RaceEventFound(k, log) ==
  /\ animations' = [animations EXCEPT ![tasks[k].hash] = @ + 1]
  /\ tasks' = [tasks EXCEPT ![k].pc = "animate", ![k].ev = log.ev]
  /\ UNCHANGED << pages, reactVars, hookVars, envVars, timers, rs, outcomes,
                  settled, fresh >>

\* getLogs returns
TaskLogs(k, logs) ==
  /\ Stable /\ k \in 1..Len(tasks) /\ tasks[k].pc = "logs"
  /\ logs \in LogChoices(tasks[k].hash)
  /\ LET i == FindRaceEvent(logs, tasks[k].hash) IN
       IF i = 0 THEN RaceEventNotFound(k)
       ELSE IF logs[i].args = "ok" THEN RaceEventFound(k, logs[i])
       ELSE RaceCompleteCatch(k)     \* winners is undefined: winners.map throws

\* ... or throws
TaskLogsThrows(k) ==
  /\ Stable /\ k \in 1..Len(tasks) /\ tasks[k].pc = "logs"
  /\ RaceCompleteCatch(k)

\* animateRace resolves: "Show results", then the reset
TaskAnimationDone(k) ==
  /\ Stable /\ k \in 1..Len(tasks) /\ tasks[k].pc = "animate"
  /\ LET p == Payloads[tasks[k].ev] IN
       /\ raceResult' = [set |-> TRUE, won |-> p.won, winners |-> p.winners,
                         payout |-> p.payout]
       /\ statusMessage' = IF p.won THEN Msg("Won") ELSE Msg("Lost")
  /\ showResult' = TRUE
  /\ outcomes' = [outcomes EXCEPT ![tasks[k].hash] = @ + 1]
  /\ ResetRaceState(tasks[k].hash)
  /\ tasks' = RemoveAt(tasks, k)
  /\ UNCHANGED << pages, selectedHorse, selectedBet, showTrack, address,
                  allowanceData, baseFee, envVars, timers,
                  rs, animations, fresh >>

\* a setTimeout(..., 5000) of the else branch or of the catch block fires
TimerFires(t) ==
  /\ Stable /\ t \in timers
  /\ timers' = timers \ {t}
  /\ showTrack' = FALSE
  /\ isRacing' = FALSE
  /\ IF t.kind = "catch"
     THEN raceHash' = NoValue /\ settled' = settled \cup {t.hash}
     ELSE UNCHANGED << raceHash, settled >>
  /\ UNCHANGED << pages, selectedHorse, selectedBet, statusMessage, isApproved,
                  showResult, raceResult, hookVars, envVars, tasks, rs,
                  outcomes, animations, fresh >>

(* ------------------------------- Next --------------------------------- *)
Next ==
  \/ ClickHorse
  \/ ClickBet
  \/ ClickApprove
  \/ ClickRace
  \/ ClickCloseTrack
  \/ ClickCloseResult
  \/ WalletConnects
  \/ WalletDisconnects
  \/ \E id \in 1..Len(txs) : WalletSigns(id)
  \/ \E id \in 1..Len(txs) : WalletRejects(id)
  \/ \E id \in 1..Len(txs) : TxMined(id)
  \/ ReceiptObserved
  \/ ReceiptWaitFails
  \/ AllowanceFetched
  \/ BaseFeeLoaded
  \/ Commit
  \/ \E k \in 1..Len(tasks) : TaskCountdown(k)
  \/ \E k \in 1..Len(tasks) : TaskReceipt(k)
  \/ \E k \in 1..Len(tasks) : TaskReceiptThrows(k)
  \/ \E k \in 1..Len(tasks) : \E logs \in LogChoices(tasks[k].hash) : TaskLogs(k, logs)
  \/ \E k \in 1..Len(tasks) : TaskLogsThrows(k)
  \/ \E k \in 1..Len(tasks) : TaskAnimationDone(k)
  \/ \E t \in timers : TimerFires(t)

Spec == Init /\ [][Next]_vars

(* ====================== properties of the model ======================= *)
\* the race submissions in flight: requested, not refused by the wallet, and
\* not yet settled and reset
ActiveRaces == { id \in 1..Len(txs) :
                   txs[id].kind = "race" /\ txs[id].st # "rejected"
                   /\ id \notin settled }

\* C1: at most one race submission is active at a time: while a race is in
\* flight (submitted by handleRace, not yet settled and reset) a race action
\* submits no transaction and changes no state.
C1_OneActiveRace ==
  [][(ActiveRaces # {} /\ handleRace) => UNCHANGED vars]_vars

\* C2: in every committed state, isApproved is true only while the polled
\* allowance is present and at least the selected bet.
C2_ApprovedOnlyWithAllowance ==
  (Stable /\ isApproved) =>
     (selectedBet # NoValue /\ allowance # NoValue /\ allowance >= selectedBet)
C2_Witness ==
  /\ Stable /\ isApproved /\ allowance = selectedBet
  /\ \E id \in 1..Len(txs) : txs[id].kind = "approve" /\ txs[id].st = "ok"

\* C3: for a race transaction hash, reconciliation produces one race outcome
\* (one animateRace, one setRaceResult/setShowResult), however often the
\* effect is invoked for that hash.
C3_OneOutcomePerHash ==
  \A h \in 1..MaxTx : outcomes[h] <= 1 /\ animations[h] <= 1

\* C4: every error path of a race returns the session to Idle: no error
\* leaves isRacing true with nothing left that would clear it (no wallet
\* answer, receipt, reconciliation or delayed reset outstanding).
C4_ErrorPathsReturnToIdle ==
  ~( /\ Stable /\ isRacing
     /\ wr.status = "error"
     /\ tasks = << >> /\ timers = {} )

\* C5: the reconciliation of a mined but reverted race transaction ends in a
\* TransactionReverted error status.
C5_RevertedEndsInRevertedError ==
  [][ ( /\ Len(tasks) = 1 /\ tasks' = << >>
        /\ txs[tasks[1].hash].st = "reverted" )
      => statusMessage'.kind = "Reverted" ]_vars

\* C6: when no fetched log is a RaceExecuted event of the race transaction,
\* the status is the explicit not-found error, raceResult and the result
\* modal stay as they were, no animation runs and no outcome is produced.
C6_NoEventIsExplicitError ==
  [][ \A k \in 1..Len(tasks) : \A logs \in LogChoices(tasks[k].hash) :
        ( FindRaceEvent(logs, tasks[k].hash) = 0 /\ TaskLogs(k, logs) )
        => ( /\ statusMessage'.kind = "NotFound"
             /\ raceResult' = raceResult /\ showResult' = showResult
             /\ outcomes' = outcomes /\ animations' = animations ) ]_vars
C6_Witness ==
  /\ statusMessage.kind = "NotFound" /\ ~showResult /\ raceResult = NoResult
  /\ \E t \in timers : t.kind = "nf" /\ txs[t.hash].st = "ok"

\* C7: after the display delay of a failed reconciliation has passed, the
\* session is Idle: isRacing false, the track hidden, no race hash held.
C7_FailureReturnsToIdle ==
  [][ (timers' # timers /\ timers' \subseteq timers)
      => (~isRacing' /\ ~showTrack' /\ raceHash' = NoValue) ]_vars

\* C8: whenever, with a confirmed approval, the polled allowance is current
\* and at least the selected bet and no race is under way, the session is
\* Approved.
C8_AllowanceReachesApproved ==
  ( /\ Stable /\ isConfirmed /\ txs[hash].kind = "approve" /\ txs[hash].st = "ok"
    /\ selectedBet # NoValue /\ allowance = chainAllowance
    /\ allowance >= selectedBet )
  => isApproved

\* C9: in a fresh session (one bet selection, no race yet) the approve action
\* submits approve(spender, selectedBet), and once that transaction is
\* confirmed and the polled allowance equals the bet, the session is Approved
\* and the race action is enabled.
C9_FreshApproveScenario ==
  /\ [][ClickApprove => ( /\ Len(txs') = Len(txs) + 1
                          /\ txs'[Len(txs')].kind = "approve"
                          /\ txs'[Len(txs')].amount = selectedBet )]_vars
  /\ []( ( /\ fresh /\ Stable /\ isConfirmed
           /\ txs[hash].kind = "approve" /\ txs[hash].st = "ok"
           /\ allowance = selectedBet )
         => (isApproved /\ canRace) )
C9_Witness ==
  /\ fresh /\ Stable /\ isConfirmed /\ Len(txs) = 1
  /\ txs[hash].kind = "approve" /\ txs[hash].st = "ok"
  /\ selectedHorse = 3 /\ selectedBet = 10 /\ allowance = 10
  /\ isApproved /\ canRace

\* C10: when the wait for the race transaction's receipt gives up, the user
\* sees an error status and the session does not stay in the race.
C10_ReceiptTimeoutSurfaced ==
  ( /\ Stable /\ hash # NoValue /\ txs[hash].kind = "race" /\ rcpt = "error" )
  => ( statusMessage.kind \in {"Error", "NotFound", "ReceiptTimeout"} /\ ~isRacing )

\* C11: within one race lifecycle the steps run in the order submit, receipt,
\* logs, event, outcome (a reconciliation exists only for a mined transaction,
\* and it animates only an event it has located), and no second run of the
\* sequence for the same hash overlaps the first.
C11_OrderedNoOverlap ==
  /\ \A k \in 1..Len(tasks) :
       /\ txs[tasks[k].hash].st \in {"ok", "reverted"}
       /\ (tasks[k].pc = "animate") => (tasks[k].ev # 0)
       /\ (tasks[k].pc # "animate") => (tasks[k].ev = 0)
  /\ \A i, j \in 1..Len(tasks) : (i # j) => (tasks[i].hash # tasks[j].hash)

\* C12: the wager is immutable while a race is in flight: from the submission
\* of a race until it is settled, selectedHorse and selectedBet do not change.
C12_WagerImmutableInFlight ==
  [][ (ActiveRaces # {})
      => (selectedHorse' = selectedHorse /\ selectedBet' = selectedBet) ]_vars

\* C13: while a submitted approve or race transaction awaits its signature
\* or its confirmation, no further transaction is submitted.
C13_OneOutstandingTransaction ==
  [][ (\E id \in 1..Len(txs) : txs[id].st \in {"prompt", "pending"})
      => (Len(txs') = Len(txs)) ]_vars

\* C14: a race transaction is submitted only when the session is approved,
\* the base fee is loaded and a horse and a bet are selected, and it carries
\* the selected horse and bet and the base fee as value; a click on RACE
\* while one of these is missing submits nothing and leaves isRacing,
\* showTrack and the status as they were.
C14_RaceOnlyWhenReady ==
  /\ [][ (Len(txs') > Len(txs) /\ txs'[Len(txs')].kind = "race")
         => ( /\ isApproved /\ baseFee # NoValue /\ baseFee # 0
              /\ selectedHorse # NoValue /\ selectedBet # NoValue
              /\ txs'[Len(txs')].horse = selectedHorse
              /\ txs'[Len(txs')].amount = selectedBet
              /\ txs'[Len(txs')].value = baseFee ) ]_vars
  /\ [][ ( /\ ClickRace
           /\ (baseFee = NoValue \/ selectedHorse = NoValue \/ selectedBet = NoValue) )
         => UNCHANGED << txs, isRacing, showTrack, statusMessage >> ]_vars
C14_Witness ==
  /\ Len(txs) >= 1 /\ isRacing /\ showTrack
  /\ LET tx == txs[Len(txs)] IN
       /\ tx.kind = "race" /\ tx.st = "prompt"
       /\ tx.horse = 3 /\ tx.horse = selectedHorse
       /\ tx.amount = selectedBet /\ tx.value = BaseFeeValue

\* C15: an approve transaction is submitted only when a horse and a bet are
\* both selected and the session is neither approved nor racing.
C15_ApproveOnlyWhenSelected ==
  [][ (Len(txs') > Len(txs) /\ txs'[Len(txs')].kind = "approve")
      => ( /\ selectedHorse # NoValue /\ selectedBet # NoValue
           /\ ~isApproved /\ ~isRacing ) ]_vars
C15_Witness ==
  /\ Len(txs) = 1 /\ txs[1].kind = "approve" /\ txs[1].st = "prompt"
  /\ selectedHorse = 3 /\ txs[1].amount = selectedBet
  /\ statusMessage.kind = "Approving"

\* C16: a reconciliation starts only for the confirmed hash of the race in
\* flight (isRacing, raceHash set and equal to the hook's hash, that hash
\* confirmed), and never for an approval transaction.
C16_ReconciliationOnlyForRaceHash ==
  /\ [][ (Len(tasks') > Len(tasks))
         => ( /\ isRacing /\ raceHash # NoValue /\ raceHash = hash
              /\ isConfirmed /\ txs[hash].kind = "race"
              /\ tasks'[Len(tasks')].hash = hash ) ]_vars
  /\ [](\A k \in 1..Len(tasks) : txs[tasks[k].hash].kind = "race")
C16_Witness ==
  /\ Len(tasks) = 1 /\ tasks[1].pc = "countdown"
  /\ txs[tasks[1].hash].kind = "race" /\ raceHash = tasks[1].hash
  /\ \E id \in 1..Len(txs) : txs[id].kind = "approve" /\ txs[id].st = "ok"

\* C17: the outcome comes only from a log of the race transaction itself:
\* logs of other transactions are not used, of several logs of the
\* transaction the first in log order is taken, and when there is none the
\* result is the not-found error and no animation or outcome.
C17_OutcomeFromOwnLog ==
  [][ \A k \in 1..Len(tasks) : \A logs \in LogChoices(tasks[k].hash) :
        TaskLogs(k, logs) =>
          LET own == { i \in 1..Len(logs) : logs[i].tx = tasks[k].hash } IN
            /\ (own = {}) => ( /\ statusMessage'.kind = "NotFound"
                               /\ animations' = animations
                               /\ outcomes' = outcomes
                               /\ Len(tasks') < Len(tasks) )
            /\ (animations' # animations) =>
                 ( /\ own # {}
                   /\ \E i \in own : /\ \A j \in own : i <= j
                                     /\ tasks'[k].ev = logs[i].ev ) ]_vars
C17_Witness ==
  \E k \in 1..Len(tasks) :
    /\ tasks[k].pc = "animate" /\ tasks[k].ev = 2
    /\ animations[tasks[k].hash] = 1 /\ outcomes[tasks[k].hash] = 0

\* C18: the winner list taken from a decoded RaceExecuted event and passed to
\* the animation and to the result has length 3 and holds distinct horse
\* indices in 0..15.
ValidWinners(w) ==
  /\ Len(w) = 3
  /\ \A i \in 1..Len(w) : w[i] \in 0..(NumHorses - 1)
  /\ \A i, j \in 1..Len(w) : (i # j) => (w[i] # w[j])
C18_WinnersWellFormed ==
  /\ raceResult.set => ValidWinners(raceResult.winners)
  /\ \A k \in 1..Len(tasks) :
       (tasks[k].pc = "animate") => ValidWinners(Payloads[tasks[k].ev].winners)

\* C19: closing the track while a race is in flight changes showTrack only;
\* the suspended reconciliation is kept, each of its steps can still be
\* taken, and when it ends with the track closed it resets the race (or, on
\* the catch path, leaves the delayed reset pending).
C19_CloseTrackDoesNotAbort ==
  /\ [][ ClickCloseTrack
         => ( /\ ~showTrack'
              /\ UNCHANGED << selectedHorse, selectedBet, statusMessage,
                              isApproved, showResult, raceResult, isRacing,
                              raceHash, hookVars, envVars, asyncVars, rs,
                              histVars >> ) ]_vars
  /\ [][ (~showTrack /\ Len(tasks') < Len(tasks))
         => ( \/ (~isRacing' /\ raceHash' = NoValue /\ wr'.status = "idle")
              \/ (\E t \in timers' : t.kind = "catch") ) ]_vars
  /\ []( (Stable /\ ~showTrack) =>
           \A k \in 1..Len(tasks) :
             \/ tasks[k].pc = "countdown" /\ tasks[k].due \cap timers # {}
             \/ tasks[k].pc = "countdown" /\ ENABLED TaskCountdown(k)
             \/ tasks[k].pc = "receipt" /\ ENABLED TaskReceipt(k)
             \/ tasks[k].pc = "logs" /\ ENABLED TaskLogs(k, << >>)
             \/ tasks[k].pc = "animate" /\ ENABLED TaskAnimationDone(k) )
C19_Witness ==
  /\ Len(txs) = 1 /\ disconnects = 0 /\ timers = {}
  /\ ~showTrack /\ isRacing
  /\ Len(tasks) = 1 /\ tasks[1].pc = "animate"

\* C20: the delayed reset scheduled by a finished or failed race changes
\* neither isRacing nor raceHash nor showTrack while a race started after
\* it is in flight.
C20_DelayedResetsGuarded ==
  [][ \A t \in timers :
        ( /\ timers' = timers \ {t} /\ tasks' = tasks
          /\ \E id \in ActiveRaces : id > t.hash )
        => UNCHANGED << isRacing, raceHash, showTrack >> ]_vars

C23_RaceHashIsRaceInFlight ==
  (Stable /\ raceHash # NoValue)
  => ( /\ isRacing
       /\ txs[raceHash].kind = "race"
       /\ raceHash \in ActiveRaces
       /\ raceHash = hash )

\* C24: when a race lifecycle ends, on the outcome, not-found or error path,
\* isApproved is false.
C24_NotApprovedAfterRace ==
  [][ (settled' # settled) => ~isApproved' ]_vars

\* C33: once a horse and a bet are both selected, a selectHorse or selectBet
\* call leaves the 'Ready!' message of the selection it made; and a 'Ready!'
\* message never names a horse or a bet other than the selected ones.
C33_ReadyNamesSelection ==
  /\ [][ ((ClickHorse \/ ClickBet)
           /\ selectedHorse' # NoValue /\ selectedBet' # NoValue)
         => statusMessage' = ReadyMsg(selectedHorse', selectedBet') ]_vars
  /\ [](statusMessage.kind = "Ready"
         => (statusMessage.horse = selectedHorse
               /\ statusMessage.bet = selectedBet))

(***************************************************************************)
(* The simulator App (src/src/App.tsx, lines 668-1043): a demo balance, a  *)
(* local random draw instead of a transaction.  Its handlers run from      *)
(* clicks, so each sees the state of the latest render; the asynchronous   *)
(* part of handleRace keeps the closure of the render of its click, which  *)
(* is recorded in the suspended call (horse, bet, seen).                   *)
(***************************************************************************)
\* races a simulator session starts
MaxSimRaces == 3

InitialBalance == 100              \* parseEther('100000000000'), in units of 10^9 PONY
PayoutFactor == 3                  \* selectedBet * 3n
RandomScale == 100                 \* Math.random() is taken in hundredths
WinThreshold == 33                 \* Math.random() < 0.33
RandomValues == {0, 32, 33, 50, 66, 99}  \* values Math.random() returns
SimHorses == {0, 15}               \* horse cards the user clicks in the simulator
\* the four Math.random() values one generateRandomWinners call of a
\* simulator session consumes
SimDraws == { <<32, 99, 0, 99>>, <<33, 0, 33, 99>> }

\* Math.floor(Math.random() * n)
RandomIndex(r, n) == (r * n) \div RandomScale
\* Array.from({length: 16}, (_, i) => i)
AllHorses == [i \in 1..NumHorses |-> i - 1]
\* array.splice(index, 1) on a 0-based index
Splice(s, index) == IF index < Len(s) THEN RemoveAt(s, index + 1) ELSE s

\* the loop body 'randomIndex; winners[i] = availableHorses[randomIndex];
\* availableHorses.splice(randomIndex, 1)', once per value of draws
RECURSIVE PickHorses(_, _)
PickHorses(availableHorses, draws) ==
  IF draws = << >> THEN << >>
  ELSE LET randomIndex == RandomIndex(Head(draws), Len(availableHorses))
       IN  << availableHorses[randomIndex + 1] >>
           \o PickHorses(Splice(availableHorses, randomIndex), Tail(draws))

\* variant: the player's horse is not removed from the available horses
generateRandomWinners_KeepsPlayer(playerHorse, r) ==
  LET playerWinChance == r[1] < WinThreshold
      winPosition == RandomIndex(r[2], 3)
      others == PickHorses(AllHorses, << r[3], r[4] >>)
  IN  [ winners |->
          IF playerWinChance
          THEN [i \in 1..3 |-> IF i - 1 = winPosition THEN playerHorse
                               ELSE IF i - 1 < winPosition THEN others[i]
                               ELSE others[i - 1]]
          ELSE PickHorses(AllHorses, << r[2], r[3], r[4] >>),
        playerWon |-> playerWinChance ]

\* generateRandomWinners(playerHorse); r holds the values of its
\* Math.random() calls in call order
generateRandomWinners(playerHorse, r) ==
  LET playerWinChance == r[1] < WinThreshold
      winPosition == RandomIndex(r[2], 3)
      availableHorses == Splice(AllHorses, playerHorse)
      others == PickHorses(availableHorses, << r[3], r[4] >>)
  IN  [ winners |->
          IF playerWinChance
          THEN [i \in 1..3 |-> IF i - 1 = winPosition THEN playerHorse
                               ELSE IF i - 1 < winPosition THEN others[i]
                               ELSE others[i - 1]]
          ELSE PickHorses(availableHorses, << r[2], r[3], r[4] >>),
        playerWon |-> playerWinChance ]

\* useState<...|null>(null) of lastRaceResult
NoLastResult == [set |-> FALSE, won |-> FALSE, payout |-> 0, winners |-> << >>]
\* no handleRace call is suspended
NoRace == [pc |-> "none"]
\* the #raceAnnouncement element: empty and not displayed
NoAnnouncement == [shown |-> FALSE, set |-> FALSE, won |-> FALSE, payout |-> 0,
                   winners |-> << >>]

SimInitial ==
  [ mounted |-> TRUE,
    selectedHorse |-> NoValue, selectedBet |-> NoValue,
    statusMessage |-> "Pick", showTrack |-> FALSE, isRacing |-> FALSE,
    simulatorBalance |-> InitialBalance,
    lastRaceResult |-> NoLastResult,
    race |-> NoRace,                 \* the suspended handleRace call
    announcement |-> NoAnnouncement,
    races |-> 0,                     \* history: races started
    finished |-> NoRace ]            \* history: the race that completed last

SimInit ==
  /\ AppInit /\ chainAllowance = 0
  /\ sim = SimInitial
  /\ gen = NotMounted /\ zora = NotMounted

\* updateStatus() reads the selection of the render of the click
simUpdateStatus ==
  IF sim.selectedHorse # NoValue /\ sim.selectedBet # NoValue
  THEN "Ready" ELSE sim.statusMessage

simSelectHorse(horseId) ==
  /\ sim.mounted
  /\ sim' = [sim EXCEPT !.selectedHorse = horseId,
                        !.statusMessage = simUpdateStatus]
  /\ UNCHANGED << appVars, gen, zora >>

simSelectBet(amount) ==
  /\ sim.mounted
  /\ sim' = [sim EXCEPT !.selectedBet = amount,
                        !.statusMessage = simUpdateStatus]
  /\ UNCHANGED << appVars, gen, zora >>

simCanRace ==
  sim.selectedHorse # NoValue /\ sim.selectedBet # NoValue /\ ~sim.isRacing

\* the synchronous part of handleRace, up to its first await
StartSimRace ==
  [sim EXCEPT !.statusMessage = "Starting",
              !.isRacing = TRUE,
              !.showTrack = TRUE,
              !.simulatorBalance = @ - sim.selectedBet,
              !.race = [pc |-> "wait", horse |-> sim.selectedHorse,
                        bet |-> sim.selectedBet, seen |-> sim.lastRaceResult,
                        before |-> sim.simulatorBalance,
                        won |-> FALSE, payout |-> 0, winners |-> << >>],
              !.races = @ + 1]

\* variant: no balance check
simHandleRace_NoBalanceCheck ==
  /\ sim.mounted /\ simCanRace
  /\ sim.races < MaxSimRaces
  /\ sim' = StartSimRace
  /\ UNCHANGED << appVars, gen, zora >>

\* a click on the RACE button (disabled unless canRace)
simHandleRace ==
  /\ sim.mounted /\ simCanRace
  /\ IF sim.simulatorBalance < sim.selectedBet
     THEN sim' = [sim EXCEPT !.statusMessage = "NotEnough"]
     ELSE /\ sim.races < MaxSimRaces
          /\ sim' = StartSimRace
  /\ UNCHANGED << appVars, gen, zora >>

\* variant: the payout is credited whether or not the player won
simRaceGenerated_AlwaysCredits(r) ==
  /\ sim.mounted /\ sim.race.pc = "wait"
  /\ LET res == generateRandomWinners(sim.race.horse, r)
         payout == IF res.playerWon THEN sim.race.bet * PayoutFactor ELSE 0
     IN  sim' = [sim EXCEPT
                   !.lastRaceResult = [set |-> TRUE, won |-> res.playerWon,
                                       payout |-> payout, winners |-> res.winners],
                   !.simulatorBalance = @ + sim.race.bet * PayoutFactor,
                   !.race = [@ EXCEPT !.pc = "animate", !.won = res.playerWon,
                                      !.payout = payout, !.winners = res.winners]]
  /\ UNCHANGED << appVars, gen, zora >>

\* handleRace after its 500 ms wait: winners drawn, result stored, payout
\* credited, animation started
simRaceGenerated(r) ==
  /\ sim.mounted /\ sim.race.pc = "wait"
  /\ LET res == generateRandomWinners(sim.race.horse, r)
         payout == IF res.playerWon THEN sim.race.bet * PayoutFactor ELSE 0
     IN  sim' = [sim EXCEPT
                   !.lastRaceResult = [set |-> TRUE, won |-> res.playerWon,
                                       payout |-> payout, winners |-> res.winners],
                   !.simulatorBalance = IF res.playerWon THEN @ + payout ELSE @,
                   !.race = [@ EXCEPT !.pc = "animate", !.won = res.playerWon,
                                      !.payout = payout, !.winners = res.winners]]
  /\ UNCHANGED << appVars, gen, zora >>

\* the animation reaches progress 1: the announcement is written from the
\* selectedHorse and lastRaceResult of animateRace's closure, which is the
\* render of the click that started the race
simAnimationFinished ==
  /\ sim.mounted /\ sim.race.pc = "animate"
  /\ sim' = [sim EXCEPT
               !.announcement =
                  IF sim.race.horse # NoValue /\ sim.race.seen.set
                  THEN [shown |-> TRUE, set |-> TRUE, won |-> sim.race.seen.won,
                        payout |-> sim.race.seen.payout,
                        winners |-> sim.race.winners]
                  ELSE @,
               !.race = [@ EXCEPT !.pc = "resolve"]]
  /\ UNCHANGED << appVars, gen, zora >>

\* 500 ms later animateRace resolves and handleRace ends
simAnimationResolved ==
  /\ sim.mounted /\ sim.race.pc = "resolve"
  /\ sim' = [sim EXCEPT
               !.statusMessage = IF sim.race.won THEN "Won" ELSE "Lost",
               !.isRacing = FALSE,
               !.race = NoRace,
               !.finished = sim.race]
  /\ UNCHANGED << appVars, gen, zora >>

simCloseTrack ==
  /\ sim.mounted /\ sim.showTrack
  /\ sim' = [sim EXCEPT !.showTrack = FALSE, !.announcement.shown = FALSE]
  /\ UNCHANGED << appVars, gen, zora >>

\* the PLAY AGAIN button of the announcement: location.reload()
simReload ==
  /\ sim.mounted /\ sim.announcement.shown
  /\ sim' = [SimInitial EXCEPT !.races = sim.races]
  /\ UNCHANGED << appVars, gen, zora >>

SimNext ==
  \/ \E horseId \in SimHorses : simSelectHorse(horseId)
  \/ \E i \in 1..Len(BET_AMOUNTS) : simSelectBet(BET_AMOUNTS[i])
  \/ simHandleRace
  \/ \E r \in SimDraws : simRaceGenerated(r)
  \/ simAnimationFinished
  \/ simAnimationResolved
  \/ simCloseTrack
  \/ simReload

SpecSim == SimInit /\ [][SimNext]_vars

(* -------- one call of the simulator's generateRandomWinners ----------- *)
GenInit ==
  /\ AppInit /\ chainAllowance = 0
  /\ sim = NotMounted /\ zora = NotMounted
  /\ \E playerHorse \in 0..(NumHorses - 1) :
       \E r \in [1..4 -> RandomValues] :
         gen = [mounted |-> TRUE, playerHorse |-> playerHorse, r |-> r,
                called |-> FALSE, winners |-> << >>, playerWon |-> FALSE]

GenCall ==
  /\ gen.mounted /\ ~gen.called
  /\ LET res == generateRandomWinners(gen.playerHorse, gen.r)
     IN  gen' = [gen EXCEPT !.called = TRUE, !.winners = res.winners,
                            !.playerWon = res.playerWon]
  /\ UNCHANGED << appVars, sim, zora >>

GenNext == GenCall

SpecGen == GenInit /\ [][GenNext]_vars

(* ------------------------ simulator properties ------------------------ *)
\* C25: the demo balance is never negative: a RACE click with
\* simulatorBalance < selectedBet only sets the 'Not enough PONY' status and
\* leaves simulatorBalance, isRacing, showTrack, lastRaceResult (and every
\* other state) unchanged; the balance goes down only in the click that starts
\* a race, by exactly the bet of that race.
C25_DemoBalanceNeverNegative ==
  /\ [](sim.simulatorBalance >= 0)
  /\ [][ (simHandleRace /\ sim.simulatorBalance < sim.selectedBet)
         => sim' = [sim EXCEPT !.statusMessage = "NotEnough"] ]_vars
  /\ [][ (sim'.simulatorBalance < sim.simulatorBalance /\ ~simReload)
         => /\ simHandleRace
            /\ ~sim.isRacing /\ sim'.isRacing
            /\ sim'.races = sim.races + 1
            /\ sim'.simulatorBalance = sim.simulatorBalance - sim.selectedBet ]_vars

\* a RACE click was refused for lack of balance after two lost races
C25_Witness ==
  /\ sim.statusMessage = "NotEnough"
  /\ sim.selectedBet # NoValue /\ sim.simulatorBalance < sim.selectedBet
  /\ sim.races = 2 /\ ~sim.isRacing /\ sim.race = NoRace

\* C26: when a race with bet b completes, the balance is the balance before
\* the race minus b, plus 3b if the player won and plus nothing otherwise, and
\* the recorded payout is 3b exactly when playerWon.
C26_BalanceAfterRace ==
  [][ simAnimationResolved
      => LET b == sim.race.bet
         IN  /\ sim'.simulatorBalance
                  = sim.race.before - b + (IF sim.race.won THEN 3 * b ELSE 0)
             /\ sim'.lastRaceResult.won = sim.race.won
             /\ (sim'.lastRaceResult.payout = 3 * b) <=> sim.race.won
             /\ sim'.lastRaceResult.payout \in {0, 3 * b} ]_vars

\* a won race has completed and the balance is up by twice its bet
C26_Witness ==
  /\ sim.race = NoRace /\ sim.finished # NoRace
  /\ sim.finished.won
  /\ sim.simulatorBalance = sim.finished.before + 2 * sim.finished.bet
  /\ sim.lastRaceResult.payout = 3 * sim.finished.bet

\* C27: generateRandomWinners(playerHorse) returns, for every playerHorse in
\* 0..15 and every random choice, exactly three distinct horse ids in 0..15,
\* and playerWon is true exactly when playerHorse is one of them.
C27_WinnersDistinctAndHonest ==
  gen.called
  => /\ Len(gen.winners) = 3
     /\ \A i \in 1..3 : gen.winners[i] \in 0..15
     /\ \A i, j \in 1..3 : (i # j) => (gen.winners[i] # gen.winners[j])
     /\ gen.playerWon <=> (\E i \in 1..3 : gen.winners[i] = gen.playerHorse)

\* horse 15 was placed third by a winning draw
C27_Witness ==
  /\ gen.called /\ gen.playerWon
  /\ gen.playerHorse = 15 /\ gen.winners[3] = 15

\* C28: the announcement shown when the animation of a race finishes reports
\* the won flag and the payout of that same race, for the first race of a
\* session and for every later one.
C28_AnnouncementOfSameRace ==
  [][ simAnimationFinished
      => /\ sim'.announcement.shown
         /\ sim'.announcement.won = sim.race.won
         /\ sim'.announcement.payout = sim.race.payout ]_vars

(***************************************************************************)
(* ZoraPage (src/src/App.tsx, lines 1455-1836): a participant list, a      *)
(* countdown to the daily race time kept in localStorage, a race started   *)
(* by the button or by the countdown.  Times are milliseconds since the    *)
(* UTC midnight that starts day 0.  The clock moves from one due timer to  *)
(* the next (timers fire when due); user actions happen at the instants    *)
(* the clock stops at.  The one-second interval is followed tick by tick   *)
(* in a window around each day's race time and in one step (FastForward)   *)
(* across the hours in which its ticks only refresh the countdown.         *)
(***************************************************************************)
\* days with a race time the clock gets to (day 0 is the day before the first)
MaxDays == 1
\* races a session starts
MaxZoraRaces == 2
\* entries the participant list of a session holds
MaxParticipants == 2
\* the interval is followed tick by tick from WatchBefore ms before a race
\* time to WatchAfter ms after it
WatchBefore == 2000
WatchAfter == 1000

DayMs == 86400000
HourMs == 3600000
targetUTCHour == 18
TickMs == 1000                     \* setInterval(..., 1000)
TrackWaitMs == 500                 \* setTimeout(resolve, 500) before the draw
AnimationMs == 6500                \* duration 6000, then setTimeout(resolve, 500)
RestartMs == 5000                  \* setTimeout(..., 5000) of the no-winner branch

\* a string is the sequence of its characters
\* what the entry form holds when ADD is clicked: the username field ...
ZoraNames == { << "a", "n", "n" >> }
\* ... and the number field (the value of an <input type="number">, which is
\* empty or a valid floating-point number)
ZoraHorseInputs == { << "1" >> }
\* the three Math.random() values one generateRandomWinners call consumes
ZoraDraws == { <<0, 0, 0>>, <<99, 99, 99>> }

TargetOfDay(d) == d * DayMs + targetUTCHour * HourMs
\* instants at which the page is opened
InitialNows == { TargetOfDay(1) - HourMs, TargetOfDay(1) - HourMs + 1 }
\* what an earlier session left in localStorage, as a number (NoValue: nothing)
InitialTargets == { NoValue, TargetOfDay(0), TargetOfDay(1) }

DigitChars == << "0", "1", "2", "3", "4", "5", "6", "7", "8", "9" >>
IsDigit(c) == \E d \in 1..10 : DigitChars[d] = c
DigitValue(c) == (CHOOSE d \in 1..10 : DigitChars[d] = c) - 1

\* Number.prototype.toString(): the decimal digits of a non-negative integer
RECURSIVE toString(_)
toString(n) ==
  IF n < 10 THEN << DigitChars[n + 1] >>
  ELSE Append(toString(n \div 10), DigitChars[(n % 10) + 1])

\* String.prototype.trim(): white space removed at both ends
RECURSIVE trimStart(_)
trimStart(str) ==
  IF str # << >> /\ Head(str) = " " THEN trimStart(Tail(str)) ELSE str
RECURSIVE trimEnd(_)
trimEnd(str) ==
  IF str # << >> /\ str[Len(str)] = " "
  THEN trimEnd(SubSeq(str, 1, Len(str) - 1)) ELSE str
trim(str) == trimEnd(trimStart(str))

\* the longest prefix of str made of decimal digits
RECURSIVE DigitPrefix(_)
DigitPrefix(str) ==
  IF str # << >> /\ IsDigit(Head(str))
  THEN << Head(str) >> \o DigitPrefix(Tail(str)) ELSE << >>
\* the number a non-empty string of decimal digits denotes
RECURSIVE DigitsValue(_)
DigitsValue(digits) ==
  IF Len(digits) = 1 THEN DigitValue(digits[1])
  ELSE 10 * DigitsValue(SubSeq(digits, 1, Len(digits) - 1))
         + DigitValue(digits[Len(digits)])

\* NaN, as an integer that no string of the model denotes
NaN == 0 - (10 * DayMs)
isNaN(x) == x = NaN
\* parseInt(str): leading white space skipped, an optional sign, then the
\* decimal digits up to the first other character; NaN without a digit
parseInt(str) ==
  LET s == trimStart(str)
      signed == s # << >> /\ Head(s) \in {"+", "-"}
      digits == DigitPrefix(IF signed THEN Tail(s) ELSE s)
  IN  IF digits = << >> THEN NaN
      ELSE IF signed /\ Head(s) = "-" THEN 0 - DigitsValue(digits)
      ELSE DigitsValue(digits)

\* variant: today's race time is returned even when it has passed
getNextRaceTime_Today(now) ==
  (now - (now % DayMs)) + targetUTCHour * HourMs

\* getNextRaceTime() called at the instant now
getNextRaceTime(now) ==
  LET targetTime == (now - (now % DayMs)) + targetUTCHour * HourMs
  IN  IF now >= targetTime THEN targetTime + DayMs ELSE targetTime

\* Math.max(0, Math.floor((targetTime - Date.now()) / 1000))
SecondsUntil(targetTime, now) ==
  LET secs == (targetTime - now) \div 1000 IN IF secs > 0 THEN secs ELSE 0

\* generateRandomWinners() of ZoraPage; r holds its Math.random() values
zoraGenerateRandomWinners(r) == PickHorses(AllHorses, r)

\* winners.indexOf(horseId): 0-based, -1 when absent
IndexOf(winners, horseId) ==
  IF \E i \in 1..Len(winners) : winners[i] = horseId
  THEN Min({ i \in 1..Len(winners) : winners[i] = horseId }) - 1
  ELSE 0 - 1

\* variant: the horse number is looked up among the winners as it is
ParticipantResults_OneBased(participants, winners) ==
  [ k \in 1..Len(participants) |->
      LET winnerIndex == IndexOf(winners, participants[k].horseNumber)
      IN  [ username |-> participants[k].username,
            horseNumber |-> participants[k].horseNumber,
            won |-> winnerIndex # 0 - 1,
            position |-> winnerIndex ] ]

\* participants.map(p => ...) of handleRace
ParticipantResults(participants, winners) ==
  [ k \in 1..Len(participants) |->
      LET winnerIndex == IndexOf(winners, participants[k].horseNumber - 1)
      IN  [ username |-> participants[k].username,
            horseNumber |-> participants[k].horseNumber,
            won |-> winnerIndex # 0 - 1,
            position |-> winnerIndex ] ]

\* useState<RaceResult | null>(null)
NoZoraResult == [set |-> FALSE, winners |-> << >>, participantResults |-> << >>]

ZoraInit ==
  /\ AppInit /\ chainAllowance = 0
  /\ sim = NotMounted /\ gen = NotMounted
  /\ \E now \in InitialNows : \E stored \in InitialTargets :
       zora = [ mounted |-> FALSE,   \* the effects of the first render have run
                now |-> now,         \* Date.now()
                storage |-> IF stored = NoValue THEN << >>
                            ELSE toString(stored),  \* localStorage zoraRaceTargetTime
                participants |-> << >>,
                countdown |-> 0,
                isRacing |-> FALSE,
                showTrack |-> FALSE,
                raceResult |-> NoZoraResult,
                tickDue |-> NoValue, \* next callback of the interval
                tasks |-> << >>,     \* suspended handleRace calls
                timers |-> {},       \* pending no-winner timeouts
                log |-> << >>,       \* history: races started
                skipped |-> FALSE ]  \* history: a callback of the interval found
                                     \* the race time reached during a race

\* the mount effects: target read from or written to localStorage, countdown
\* set, interval started
zoraMount ==
  /\ ~zora.mounted
  /\ LET now == zora.now
         keep == zora.storage # << >> /\ ~(parseInt(zora.storage) <= now)
         targetTime == IF keep THEN parseInt(zora.storage)
                       ELSE getNextRaceTime(now)
     IN  zora' = [zora EXCEPT
                    !.mounted = TRUE,
                    !.storage = IF keep THEN @ ELSE toString(targetTime),
                    !.countdown = SecondsUntil(targetTime, now),
                    !.tickDue = now + TickMs]
  /\ UNCHANGED << appVars, sim, gen >>

\* the render after an update from state old to state new: the effect with
\* dependencies [isRacing, participants] clears the interval and starts a
\* new one when isRacing changed or the list was replaced (newList)
Rerender(old, new, newList) ==
  IF new.isRacing # old.isRacing \/ newList
  THEN [new EXCEPT !.tickDue = new.now + TickMs]
  ELSE new

\* variant: the race is started without setting isRacing
zoraStartRace_NoFlag(z, auto) ==
  [z EXCEPT
     !.showTrack = TRUE,
     !.raceResult = NoZoraResult,
     !.tasks = Append(@, [pc |-> "wait", due |-> z.now + TrackWaitMs,
                          participants |-> z.participants,
                          winners |-> << >>, auto |-> auto]),
     !.log = Append(@, [auto |-> auto, expiry |-> parseInt(z.storage)])]

\* handleRace past its guard, up to its first await
zoraStartRace(z, auto) ==
  [z EXCEPT
     !.isRacing = TRUE,
     !.showTrack = TRUE,
     !.raceResult = NoZoraResult,
     !.tasks = Append(@, [pc |-> "wait", due |-> z.now + TrackWaitMs,
                          participants |-> z.participants,
                          winners |-> << >>, auto |-> auto]),
     !.log = Append(@, [auto |-> auto, expiry |-> parseInt(z.storage)])]

\* handleRace() called in state z
zoraHandleRace(z, auto) ==
  IF Len(z.participants) = 0 \/ z.isRacing THEN z
  ELSE Rerender(z, zoraStartRace(z, auto), FALSE)

\* a click on START RACE NOW (disabled when the list is empty or a race runs)
zoraClickRace ==
  /\ zora.mounted
  /\ ~(Len(zora.participants) = 0 \/ zora.isRacing)
  /\ Len(zora.log) < MaxZoraRaces
  /\ zora' = zoraHandleRace(zora, FALSE)
  /\ UNCHANGED << appVars, sim, gen >>

\* the condition under which the interval callback calls handleRace
AutoStart(z, secondsUntilRace) ==
  secondsUntilRace = 0 /\ ~z.isRacing /\ Len(z.participants) > 0

\* one callback of the interval
zoraTick ==
  /\ zora.mounted /\ zora.tickDue = zora.now
  /\ LET secondsUntilRace == SecondsUntil(parseInt(zora.storage), zora.now)
         z == [zora EXCEPT !.countdown = secondsUntilRace,
                           !.tickDue = @ + TickMs,
                           !.skipped = @ \/ ( /\ secondsUntilRace = 0
                                              /\ zora.isRacing
                                              /\ Len(zora.participants) > 0 )]
     IN  IF AutoStart(zora, secondsUntilRace)
         THEN /\ Len(zora.log) < MaxZoraRaces
              /\ zora' = zoraHandleRace(z, TRUE)
         ELSE zora' = z
  /\ UNCHANGED << appVars, sim, gen >>

\* handleRace after its 500 ms wait: winners drawn, results computed,
\* animation started
zoraRaceDrawn(k, r) ==
  /\ zora.mounted /\ k \in 1..Len(zora.tasks)
  /\ zora.tasks[k].pc = "wait" /\ zora.tasks[k].due = zora.now
  /\ zora' = [zora EXCEPT
                !.tasks[k] = [@ EXCEPT !.pc = "animate",
                                       !.due = zora.now + AnimationMs,
                                       !.winners = zoraGenerateRandomWinners(r)]]
  /\ UNCHANGED << appVars, sim, gen >>

\* variant: isRacing is cleared before the next race time is stored
RaceResultsStored_FlagFirst(z, t) ==
  [z EXCEPT !.raceResult = [set |-> TRUE, winners |-> t.winners,
                            participantResults |->
                              ParticipantResults(t.participants, t.winners)],
            !.isRacing = FALSE]

\* setRaceResult and the localStorage write that follow animateRace
RaceResultsStored(z, t) ==
  [z EXCEPT !.raceResult = [set |-> TRUE, winners |-> t.winners,
                            participantResults |->
                              ParticipantResults(t.participants, t.winners)],
            !.storage = toString(getNextRaceTime(z.now))]

\* handleRace after animateRace: results and next race time stored, then
\* either the no-winner timeout is set or the race ends at once
zoraRaceAnimated(k) ==
  /\ zora.mounted /\ k \in 1..Len(zora.tasks)
  /\ zora.tasks[k].pc = "animate" /\ zora.tasks[k].due = zora.now
  /\ LET t == zora.tasks[k]
         participantResults == ParticipantResults(t.participants, t.winners)
         anyWinner == \E j \in 1..Len(participantResults) :
                        participantResults[j].won
         nextRaceTime == getNextRaceTime(zora.now)
         z == [RaceResultsStored(zora, t) EXCEPT !.tasks = RemoveAt(@, k)]
     IN  IF ~anyWinner
         THEN zora' = Rerender(zora,
                        [z EXCEPT !.timers = @ \cup
                                     {[due |-> zora.now + RestartMs,
                                       nextRaceTime |-> nextRaceTime]}],
                        FALSE)
         ELSE zora' = Rerender(zora,
                        [z EXCEPT !.isRacing = FALSE,
                                  !.countdown =
                                     SecondsUntil(nextRaceTime, zora.now)],
                        FALSE)
  /\ UNCHANGED << appVars, sim, gen >>

\* the timeout of the no-winner branch
zoraRestartTimer(tm) ==
  /\ zora.mounted /\ tm \in zora.timers /\ tm.due = zora.now
  /\ zora' = Rerender(zora,
               [zora EXCEPT !.showTrack = FALSE,
                            !.raceResult = NoZoraResult,
                            !.isRacing = FALSE,
                            !.countdown = SecondsUntil(tm.nextRaceTime, zora.now),
                            !.timers = @ \ {tm}],
               FALSE)
  /\ UNCHANGED << appVars, sim, gen >>

\* addParticipant() with username and horseNumber in the form; the two alerts
\* change nothing, and the form is emptied after an entry was added
zoraAddParticipant(username, horseNumber) ==
  /\ zora.mounted
  /\ Len(zora.participants) < MaxParticipants
  /\ IF trim(username) = << >> \/ horseNumber = << >>
     THEN zora' = zora
     ELSE LET horse == parseInt(horseNumber)
          IN  IF isNaN(horse) \/ horse < 1 \/ horse > 16
              THEN zora' = zora
              ELSE zora' = Rerender(zora,
                             [zora EXCEPT !.participants =
                                 Append(@, [username |-> trim(username),
                                            horseNumber |-> horse])],
                             TRUE)
  /\ UNCHANGED << appVars, sim, gen >>

\* the remove button of entry index (0-based)
zoraRemoveParticipant(index) ==
  /\ zora.mounted
  /\ index + 1 \in 1..Len(zora.participants)
  /\ zora' = Rerender(zora,
               [zora EXCEPT !.participants = RemoveAt(@, index + 1)], TRUE)
  /\ UNCHANGED << appVars, sim, gen >>

\* the CLOSE button of the track
zoraCloseTrack ==
  /\ zora.mounted /\ zora.showTrack
  /\ LET nextRaceTime == getNextRaceTime(zora.now)
     IN  zora' = Rerender(zora,
                   [zora EXCEPT !.showTrack = FALSE,
                                !.raceResult = NoZoraResult,
                                !.participants = << >>,
                                !.storage = toString(nextRaceTime),
                                !.countdown =
                                   SecondsUntil(nextRaceTime, zora.now)],
                   TRUE)
  /\ UNCHANGED << appVars, sim, gen >>

\* due times of the pending timers
ZoraDues ==
  {zora.tickDue} \cup { zora.tasks[k].due : k \in 1..Len(zora.tasks) }
                 \cup { tm.due : tm \in zora.timers }

Watched(t) ==
  \E d \in 1..MaxDays :
    TargetOfDay(d) - WatchBefore <= t /\ t <= TargetOfDay(d) + WatchAfter

\* time passes until the next timer is due
zoraAdvance ==
  /\ zora.mounted
  /\ \A t \in ZoraDues : t > zora.now
  /\ Watched(Min(ZoraDues)) \/ zora.tasks # << >> \/ zora.timers # {}
  /\ zora' = [zora EXCEPT !.now = Min(ZoraDues)]
  /\ UNCHANGED << appVars, sim, gen >>

\* time passes, with the page idle, until the first tick of the interval in
\* the watched window of day d; none of the ticks up to it starts a race
zoraFastForward(d) ==
  /\ zora.mounted /\ zora.tasks = << >> /\ zora.timers = {}
  /\ zora.tickDue > zora.now
  /\ LET from == TargetOfDay(d) - WatchBefore
         tick == from + ((zora.tickDue - from) % TickMs)
         secondsUntilRace == SecondsUntil(parseInt(zora.storage), tick)
     IN  /\ from > zora.tickDue
         /\ ~AutoStart(zora, secondsUntilRace)
         /\ zora' = [zora EXCEPT !.now = tick,
                                 !.countdown = secondsUntilRace,
                                 !.tickDue = tick + TickMs]
  /\ UNCHANGED << appVars, sim, gen >>

ZoraNext ==
  \/ zoraMount
  \/ \E username \in ZoraNames : \E horseNumber \in ZoraHorseInputs :
       zoraAddParticipant(username, horseNumber)
  \/ \E index \in 0..(MaxParticipants - 1) : zoraRemoveParticipant(index)
  \/ zoraClickRace
  \/ zoraTick
  \/ \E k \in 1..MaxZoraRaces : \E r \in ZoraDraws : zoraRaceDrawn(k, r)
  \/ \E k \in 1..MaxZoraRaces : zoraRaceAnimated(k)
  \/ \E tm \in zora.timers : zoraRestartTimer(tm)
  \/ zoraCloseTrack
  \/ zoraAdvance
  \/ \E d \in 1..MaxDays : zoraFastForward(d)

SpecZora == ZoraInit /\ [][ZoraNext]_vars

(* ------------- the entry form and the participant list ---------------- *)
\* usernames typed into the form: nothing, white space only, names with and
\* without white space around them
EntryNames == { << >>, << " " >>, << "a" >>, << " ", "b", " " >>, << "c" >> }
\* what the number field can hold, with the number it denotes in tenths
\* (the field is a free text field for numbers: min and max do not stop the
\* keyboard, and fractions and exponents are numbers too)
TypedNumbers ==
  { [text |-> << >>,                   tenths |-> 0],
    [text |-> << "0" >>,               tenths |-> 0],
    [text |-> << "1" >>,               tenths |-> 10],
    [text |-> << "2" >>,               tenths |-> 20],
    [text |-> << "1", "6" >>,          tenths |-> 160],
    [text |-> << "1", "7" >>,          tenths |-> 170],
    [text |-> << "-", "1" >>,          tenths |-> 0 - 10],
    [text |-> << "1", "6", ".", "5" >>, tenths |-> 165],
    [text |-> << "1", "e", "2" >>,     tenths |-> 1000] }
EntryHorseInputs == { t.text : t \in TypedNumbers }

\* the page with its entry form in use and no race started
ZoraEntryNext ==
  \/ zoraMount
  \/ \E username \in EntryNames : \E horseNumber \in EntryHorseInputs :
       zoraAddParticipant(username, horseNumber)
  \/ \E index \in 0..(MaxParticipants - 1) : zoraRemoveParticipant(index)

SpecZoraEntry == ZoraInit /\ [][ZoraEntryNext]_vars

(* ------- one result computation of handleRace (lines 1579-1592) ------- *)
\* the entries a race can hold: any horse number addParticipant lets in
RaceEntries ==
  { [username |-> << "a" >>, horseNumber |-> h] : h \in 1..NumHorses }
RaceLists ==
  UNION { [1..n -> RaceEntries] : n \in 1..MaxParticipants }

ResultsInit ==
  /\ AppInit /\ chainAllowance = 0
  /\ sim = NotMounted /\ zora = NotMounted
  /\ \E participants \in RaceLists :
       \E r \in [1..3 -> RandomValues] :
         gen = [mounted |-> TRUE, participants |-> participants, r |-> r,
                called |-> FALSE, winners |-> << >>,
                participantResults |-> << >>]

ResultsCall ==
  /\ gen.mounted /\ ~gen.called
  /\ LET winners == zoraGenerateRandomWinners(gen.r)
     IN  gen' = [gen EXCEPT
                   !.called = TRUE,
                   !.winners = winners,
                   !.participantResults =
                      ParticipantResults(gen.participants, winners)]
  /\ UNCHANGED << appVars, sim, zora >>

ResultsNext == ResultsCall

SpecZoraResults == ResultsInit /\ [][ResultsNext]_vars

(* -------------------------- ZoraPage properties ----------------------- *)
RaceTime == targetUTCHour * HourMs
StoredTarget == parseInt(zora.storage)
ZoraBusy == zora.tasks # << >> \/ zora.timers # {}

\* C22: getNextRaceTime returns the earliest 18:00:00 UTC instant strictly
\* after now, at most 24 h ahead; and after the initialisation, after each
\* race and after closeTrack the target stored in localStorage is such an
\* instant, strictly in the future.
C22_StoredTargetInFuture ==
  /\ [](LET t == getNextRaceTime(zora.now)
        IN  /\ t > zora.now /\ t - zora.now <= DayMs
            /\ t % DayMs = RaceTime
            /\ t - DayMs <= zora.now)
  /\ [][ (zoraMount \/ zoraCloseTrack
            \/ \E k \in 1..MaxZoraRaces : zoraRaceAnimated(k))
         => /\ parseInt(zora'.storage) > zora'.now
            /\ parseInt(zora'.storage) - zora'.now <= DayMs
            /\ parseInt(zora'.storage) % DayMs = RaceTime ]_vars

\* a race ended after the race time of day 1 and stored that of day 2
C22_Witness ==
  /\ zora.mounted /\ Len(zora.log) > 0 /\ ~ZoraBusy
  /\ zora.now > TargetOfDay(1)
  /\ zora.storage = toString(TargetOfDay(2))

\* C29: at most one race runs at a time and never with zero participants:
\* no race starts in a state with isRacing set or with an empty list, whether
\* the trigger is the button or the countdown.
C29_OneRaceNeverEmpty ==
  /\ [](Len(zora.tasks) + Cardinality(zora.timers) <= 1)
  /\ [](\A k \in 1..Len(zora.tasks) : Len(zora.tasks[k].participants) > 0)
  /\ [](ZoraBusy => zora.isRacing)
  /\ [][ (zora.isRacing \/ Len(zora.participants) = 0)
         => zora'.log = zora.log ]_vars

\* the interval ticked at the race time while a race started by the button
\* was running: no second race was started
C29_Witness ==
  /\ zora.mounted /\ zora.isRacing /\ Len(zora.tasks) = 1
  /\ Len(zora.log) = 1 /\ ~zora.log[1].auto
  /\ Len(zora.participants) > 0
  /\ StoredTarget <= zora.now /\ zora.countdown = 0
  /\ zora.skipped

\* C30: a tick of the countdown that finds the stored target reached, at
\* least one participant and no race running starts a race; one expiry starts
\* exactly one race; a running race always has a pending continuation (a
\* step of handleRace or its no-winner timeout) that is due now or later, the
\* last continuation clears isRacing, and the stored target has been moved
\* to the future when isRacing is cleared.
C30_ExpiryStartsOneRace ==
  /\ [](zora.mounted
        => zora.now <= zora.tickDue /\ zora.tickDue <= zora.now + TickMs)
  /\ [][ (zoraTick /\ StoredTarget <= zora.now /\ ~zora.isRacing
            /\ Len(zora.participants) > 0)
         => /\ zora'.isRacing
            /\ Len(zora'.log) = Len(zora.log) + 1
            /\ zora'.log[Len(zora'.log)].auto
            /\ zora'.log[Len(zora'.log)].expiry = StoredTarget ]_vars
  /\ [](\A i, j \in 1..Len(zora.log) :
          (i # j /\ zora.log[i].auto /\ zora.log[j].auto)
          => zora.log[i].expiry # zora.log[j].expiry)
  /\ [](zora.isRacing => ZoraBusy /\ \A t \in ZoraDues : t >= zora.now)
  /\ [](zora.isRacing
        => \A k \in 1..Len(zora.tasks) :
             zora.tasks[k].pc \in {"wait", "animate"} /\ k <= MaxZoraRaces)
  /\ [][ (ZoraBusy /\ ~ZoraBusy') => ~zora'.isRacing ]_vars
  /\ [][ (zora.isRacing /\ ~zora'.isRacing)
         => /\ zora'.tasks = << >> /\ zora'.timers = {}
            /\ zora.log[Len(zora.log)].auto
               => parseInt(zora'.storage) > zora'.now ]_vars

\* the race started by the expiry of day 1 has ended and the countdown runs
\* towards the race time of day 2
C30_Witness ==
  /\ zora.mounted /\ ~zora.isRacing /\ ~ZoraBusy
  /\ Len(zora.log) = 1 /\ zora.log[1].auto
  /\ zora.log[1].expiry = TargetOfDay(1)
  /\ Len(zora.participants) > 0
  /\ zora.now > TargetOfDay(1)
  /\ StoredTarget = TargetOfDay(2) /\ zora.countdown > 0

\* C31: every participant in the list has a non-empty trimmed username and a
\* horse number in 1..16; addParticipant with an empty username, a missing
\* number or a number outside 1..16 leaves the list unchanged; and
\* removeParticipant(i) removes exactly the entry at index i and keeps the
\* others in order.
C31_ParticipantsWellFormed ==
  /\ [](\A k \in 1..Len(zora.participants) :
         /\ zora.participants[k].username # << >>
         /\ trim(zora.participants[k].username) = zora.participants[k].username
         /\ zora.participants[k].horseNumber \in 1..16)
  /\ [][ \A username \in EntryNames : \A t \in TypedNumbers :
          ( /\ zoraAddParticipant(username, t.text)
            /\ \/ trim(username) = << >>
               \/ t.text = << >>
               \/ t.tenths < 10 \/ t.tenths > 160 )
          => zora'.participants = zora.participants ]_vars
  /\ [][ \A index \in 0..(MaxParticipants - 1) :
          zoraRemoveParticipant(index)
          => /\ Len(zora'.participants) = Len(zora.participants) - 1
             /\ \A j \in 1..Len(zora'.participants) :
                  zora'.participants[j] =
                    zora.participants[IF j <= index THEN j ELSE j + 1] ]_vars

\* C32: the winners are three distinct horse ids in 0..15, and for every
\* participant of the race the recorded result carries its username and
\* horse number, has won = true exactly when (horseNumber - 1) is one of the
\* winners, and has as position that horse's index (0, 1 or 2) in the
\* winners list, or -1 when it lost.
C32_ResultsMatchWinners ==
  gen.called
  => /\ Len(gen.winners) = 3
     /\ \A i \in 1..3 : gen.winners[i] \in 0..15
     /\ \A i, j \in 1..3 : (i # j) => (gen.winners[i] # gen.winners[j])
     /\ Len(gen.participantResults) = Len(gen.participants)
     /\ \A k \in 1..Len(gen.participants) :
          LET p == gen.participants[k]
              res == gen.participantResults[k]
              places == { i \in 1..3 : gen.winners[i] = p.horseNumber - 1 }
          IN  /\ res.username = p.username
              /\ res.horseNumber = p.horseNumber
              /\ res.won <=> (places # {})
              /\ res.won => (res.position \in 0..2
                               /\ gen.winners[res.position + 1] = p.horseNumber - 1)
              /\ (~res.won) => (res.position = 0 - 1)

\* a race of two participants: pony #16 came third, pony #1 lost
C32_Witness ==
  /\ gen.called /\ Len(gen.participants) = 2
  /\ gen.participantResults[1].horseNumber = 16
  /\ gen.participantResults[1].won /\ gen.participantResults[1].position = 2
  /\ gen.participantResults[2].horseNumber = 1
  /\ ~gen.participantResults[2].won
  /\ gen.participantResults[2].position = 0 - 1
====
